---- MODULE Spec2Model ----
(***************************************************************************)
(* Model of PowerMonitor (src/power_monitor.h, src/power_monitor.cpp).     *)
(*                                                                         *)
(* Two PowerMonitor objects, one built with phase_count = 1 and one with   *)
(* phase_count = 3, are driven by the same ADC readings and the same       *)
(* millisecond clock.  Each update() is one step.                          *)
(*                                                                         *)
(* Number representation.  The C++ floats are kept as exact integers in    *)
(* fixed units, so that every equation below is an equation of integers:   *)
(*   - ADC quantities (offsets, quick check, RMS) are in ADC counts, the   *)
(*     fraction below one count is truncated;                              *)
(*   - currents are in units of Kc amperes, Kc = ADC_SCALE / CURRENT_BURDEN*)
(*     * CT_TURNS * ICAL (the amperes of one RMS count), truncated;        *)
(*   - _voltage_ac is in units of Kv / FACTOR_DEN volts, Kv = ADC_SCALE *  *)
(*     101.70; THREE_PHASE_FACTOR = 1.732 is FACTOR_NUM / FACTOR_DEN;      *)
(*   - _power_w is in units of Kv * Kc / FACTOR_DEN^2 watts;               *)
(*   - _energy_kwh is in units of Kv*Kc / (FACTOR_DEN^2 * 3600000 * 1000)  *)
(*     kWh, i.e. it is the sum of _power_w * elapsed milliseconds, held as *)
(*     a multi-digit natural (it does not fit 32 bits).                    *)
(* A batch of ADC readings is a sequence of runs <<value, count>>; the     *)
(* loops of the code are folded over the runs.                             *)
(*                                                                         *)
(* Clock.  update() is one atomic step: every millis() call of one update()*)
(* returns the same value, the time the sampling takes is part of the step *)
(* between two calls.  The clock never wraps within the explored runs.     *)
(***************************************************************************)
EXTENDS Integers, Sequences, FiniteSets, TLC

\* ---------------------------------------------------------------- constants
SAMPLES_PER_CYCLE == 1480
OFFSET_SAMPLES == 100
MIN_SQUARED_ADC == 100
MIN_VALID_SAMPLES == 200
MIN_PEAK_TO_PEAK == 40
MIN_PCT_VALID_SAMPLES == 15
CT_DISCONNECT_THRESHOLD == 4000
CT_STATE_DEBOUNCE == 5000
CT_HYSTERESIS == 2000
MIN_VALID_ADC == 400
MAX_VALID_ADC == 3600
MIN_VALID_COUNT == 5
SINGLE_PHASE == 1
THREE_PHASE == 3
\* THREE_PHASE_FACTOR 1.732 = FACTOR_NUM / FACTOR_DEN
FACTOR_NUM == 433
FACTOR_DEN == 250
\* local constants of the code
PRE_SAMPLES == 20
RESET_SAMPLES == 50
VOLTAGE_SAMPLES == 100
INITIAL_OFFSET == 1880
RESET_OFFSET_MIN == 1500
RESET_OFFSET_MAX == 2500
RECONNECT_CYCLES == 50
ADC_MAX == 4095

\* filter weights, in percent (FAST_FILTER 0.50, SLOW_FILTER 0.02,
\* SMOOTHING_FACTOR 0.95, and the literals of calculateCurrent)
FAST_FILTER_PCT == 50
SLOW_FILTER_PCT == 2
RECONNECT_FAST_PCT == 50
RECONNECT_SLOW_PCT == 20
SMOOTHING_FACTOR_PCT == 95
RECONNECT_SMOOTHING_PCT == 98
EFFECTIVE_FAST_PCT == 30

\* ---------------------------------------------------------------- bounds
\* number of update() calls explored
MaxCycles == 3
\* update() calls explored from a Disconnected object on in-band readings
MaxReconnectCycles == 20
\* millis() up to which Button::update() calls are explored
MaxButtonClock == 1500

\* ---------------------------------------------------------------- arithmetic
Abs(x) == IF x > 0 THEN x ELSE -x

\* A natural below DigitBase^4 as four digits, least significant first.
DigitBase == 2^15
BigZero == <<0, 0, 0, 0>>

BigAdd(a, b) ==
    LET s1 == a[1] + b[1]
        s2 == a[2] + b[2] + (s1 \div DigitBase)
        s3 == a[3] + b[3] + (s2 \div DigitBase)
        s4 == a[4] + b[4] + (s3 \div DigitBase)
    IN  <<s1 % DigitBase, s2 % DigitBase, s3 % DigitBase, s4>>

\* p * d for 0 <= p < 2^31 and 0 <= d < 2 * DigitBase
BigMul(p, d) ==
    LET p1 == p % DigitBase
        p2 == (p \div DigitBase) % DigitBase
        p3 == p \div (DigitBase * DigitBase)
        t1 == p1 * d
        t2 == p2 * d + (t1 \div DigitBase)
        t3 == p3 * d + (t2 \div DigitBase)
    IN  <<t1 % DigitBase, t2 % DigitBase, t3 % DigitBase, t3 \div DigitBase>>

\* floor(a / n) for 0 < n < DigitBase, when the quotient is below 2^31
BigDiv(a, n) ==
    LET c4 == a[4]
        c3 == (c4 % n) * DigitBase + a[3]
        c2 == (c3 % n) * DigitBase + a[2]
        c1 == (c2 % n) * DigitBase + a[1]
    IN  (((c4 \div n) * DigitBase + (c3 \div n)) * DigitBase + (c2 \div n)) * DigitBase
            + (c1 \div n)

BigLeq(a, b) ==
    \/ a[4] < b[4]
    \/ a[4] = b[4] /\ a[3] < b[3]
    \/ a[4] = b[4] /\ a[3] = b[3] /\ a[2] < b[2]
    \/ a[4] = b[4] /\ a[3] = b[3] /\ a[2] = b[2] /\ a[1] <= b[1]

\* floor(sqrt(x)) by bisection on lo..hi, lo*lo <= x < (hi+1)*(hi+1)
RECURSIVE SqrtSearch(_, _, _)
SqrtSearch(x, lo, hi) ==
    IF lo >= hi THEN lo
    ELSE LET mid == (lo + hi + 1) \div 2
         IN  IF mid * mid <= x THEN SqrtSearch(x, mid, hi)
                               ELSE SqrtSearch(x, lo, mid - 1)

Sqrt(x) == SqrtSearch(x, 0, ADC_MAX + 1)

\* ---------------------------------------------------------------- ADC batches
\* A batch is a sequence of runs <<value, count>>, in acquisition order.
\* sum += raw, over the batch
RECURSIVE BatchSum(_)
BatchSum(b) == IF b = <<>> THEN 0 ELSE b[1][1] * b[1][2] + BatchSum(Tail(b))

\* if(raw > raw_max) raw_max = raw, over the batch
RECURSIVE BatchMax(_, _)
BatchMax(b, m) ==
    IF b = <<>> THEN m
    ELSE BatchMax(Tail(b), IF b[1][1] > m THEN b[1][1] ELSE m)

\* if(raw < raw_min) raw_min = raw, over the batch
RECURSIVE BatchMin(_, _)
BatchMin(b, m) ==
    IF b = <<>> THEN m
    ELSE BatchMin(Tail(b), IF b[1][1] < m THEN b[1][1] ELSE m)

validateReading(adc_value) ==
    adc_value >= MIN_VALID_ADC /\ adc_value <= MAX_VALID_ADC

\* _valid_reading_count (uint8_t) after the batch: ++ on a valid reading,
\* reset to 0 on an invalid one
RECURSIVE countValidReadings(_, _)
countValidReadings(b, count) ==
    IF b = <<>> THEN count
    ELSE countValidReadings(Tail(b),
            IF validateReading(b[1][1]) THEN (count + b[1][2]) % 256 ELSE 0)

\* ---------------------------------------------------------------- the object
Phases == {SINGLE_PHASE, THREE_PHASE}

\* PowerMonitor::PowerMonitor
Construct(phase_count) ==
    [ phase_count          |-> IF phase_count = THREE_PHASE THEN THREE_PHASE
                                                            ELSE SINGLE_PHASE,
      voltage_ac           |-> 0,
      current_ac           |-> 0,
      last_current         |-> 0,
      filtered_offset      |-> INITIAL_OFFSET,
      fast_offset          |-> INITIAL_OFFSET,
      last_valid_current   |-> 0,
      power_w              |-> 0,
      energy_kwh           |-> BigZero,
      last_energy_update   |-> 0,
      last_valid_time      |-> 0,
      ct_connected         |-> TRUE,
      in_reconnect         |-> FALSE,
      last_ct_state_change |-> 0,
      valid_reading_count  |-> 0 ]

\* PowerMonitor::begin
begin(s, now) == [s EXCEPT !.last_energy_update = now]

\* checkCTStateChange without the dwell time
checkCTStateChangeNoDebounce(s, new_state, now) ==
    IF new_state # s.ct_connected
    THEN [result |-> TRUE, s |-> [s EXCEPT !.last_ct_state_change = now]]
    ELSE [result |-> FALSE, s |-> s]

\* PowerMonitor::checkCTStateChange: the returned flag and the object after it
checkCTStateChange(s, new_state, now) ==
    IF new_state # s.ct_connected
       /\ (now - s.last_ct_state_change) > CT_STATE_DEBOUNCE
    THEN [result |-> TRUE, s |-> [s EXCEPT !.last_ct_state_change = now]]
    ELSE [result |-> FALSE, s |-> s]

\* resetOffsetFilters without the check of the consecutive valid readings
resetOffsetFiltersNoCountCheck(s, rst) ==
    LET count == countValidReadings(rst, 0)
        quick_offset == BatchSum(rst) \div RESET_SAMPLES
    IN  IF quick_offset >= RESET_OFFSET_MIN /\ quick_offset <= RESET_OFFSET_MAX
        THEN [s EXCEPT !.valid_reading_count = count,
                       !.filtered_offset = quick_offset,
                       !.fast_offset = quick_offset,
                       !.in_reconnect = TRUE,
                       !.ct_connected = TRUE]
        ELSE [s EXCEPT !.valid_reading_count = count,
                       !.ct_connected = FALSE]

\* PowerMonitor::resetOffsetFilters on the 50 readings rst
resetOffsetFilters(s, rst) ==
    LET count == countValidReadings(rst, 0)
        quick_offset == BatchSum(rst) \div RESET_SAMPLES
    IN  IF quick_offset >= RESET_OFFSET_MIN /\ quick_offset <= RESET_OFFSET_MAX
           /\ count >= MIN_VALID_COUNT
        THEN [s EXCEPT !.valid_reading_count = count,
                       !.filtered_offset = quick_offset,
                       !.fast_offset = quick_offset,
                       !.in_reconnect = TRUE,
                       !.ct_connected = TRUE]
        ELSE [s EXCEPT !.valid_reading_count = count,
                       !.ct_connected = FALSE]

\* PowerMonitor::updateEnergy
updateEnergy(s, now) ==
    LET elapsed_ms == now - s.last_energy_update
        power_w == IF s.phase_count = THREE_PHASE
                   THEN FACTOR_NUM * s.voltage_ac * s.current_ac
                   ELSE FACTOR_DEN * s.voltage_ac * s.current_ac
    IN  [s EXCEPT !.power_w = power_w,
                  !.energy_kwh = BigAdd(s.energy_kwh, BigMul(power_w, elapsed_ms)),
                  !.last_energy_update = now]

\* sampleVoltage without the three-phase scaling of _voltage_ac
sampleVoltageUnscaled(s, volt) ==
    [s EXCEPT !.voltage_ac = (BatchSum(volt) \div VOLTAGE_SAMPLES) * FACTOR_DEN]

\* PowerMonitor::sampleVoltage on the 100 readings volt
sampleVoltage(s, volt) ==
    LET base_voltage == BatchSum(volt) \div VOLTAGE_SAMPLES
    IN  [s EXCEPT !.voltage_ac = IF s.phase_count = THREE_PHASE
                                 THEN base_voltage * FACTOR_NUM
                                 ELSE base_voltage * FACTOR_DEN]

\* ---------------------------------------------------------------- calculateCurrent
\* quick_check = pre_sum / pre_samples
quickCheck(pre) == BatchSum(pre) \div PRE_SAMPLES

\* the thresholds the other way round: the smaller one when Connected
disconnectThresholdSwapped(s) ==
    IF s.ct_connected THEN CT_DISCONNECT_THRESHOLD - CT_HYSTERESIS
                      ELSE CT_DISCONNECT_THRESHOLD

\* disconnect_threshold, chosen by the connection state
disconnectThreshold(s) ==
    IF s.ct_connected THEN CT_DISCONNECT_THRESHOLD
                      ELSE CT_DISCONNECT_THRESHOLD - CT_HYSTERESIS

\* possible_disconnect from the deviation alone, without the count of
\* consecutive valid readings
possibleDisconnectDeviationOnly(s, pre) ==
    Abs(quickCheck(pre) - s.filtered_offset) > disconnectThreshold(s)

\* possible_disconnect after the 20 pre-check readings pre
possibleDisconnect(s, pre) ==
    \/ Abs(quickCheck(pre) - s.filtered_offset) > disconnectThreshold(s)
    \/ countValidReadings(pre, 0) < MIN_VALID_COUNT

\* the offset blend leaving both filters as they are
updateOffsetsFrozen(s, off) == s

\* current_offset blended into the fast and the slow filter
updateOffsets(s, off) ==
    LET current_offset == BatchSum(off) \div OFFSET_SAMPLES
    IN  IF s.in_reconnect
        THEN [s EXCEPT
               !.fast_offset = (s.fast_offset * (100 - RECONNECT_FAST_PCT)
                                + current_offset * RECONNECT_FAST_PCT) \div 100,
               !.filtered_offset = (s.filtered_offset * (100 - RECONNECT_SLOW_PCT)
                                + current_offset * RECONNECT_SLOW_PCT) \div 100]
        ELSE [s EXCEPT
               !.fast_offset = (s.fast_offset * (100 - FAST_FILTER_PCT)
                                + current_offset * FAST_FILTER_PCT) \div 100,
               !.filtered_offset = (s.filtered_offset * (100 - SLOW_FILTER_PCT)
                                + current_offset * SLOW_FILTER_PCT) \div 100]

\* effective_offset = fast * 0.3 + slow * 0.7
effectiveOffset(s) ==
    (s.fast_offset * EFFECTIVE_FAST_PCT
     + s.filtered_offset * (100 - EFFECTIVE_FAST_PCT)) \div 100

\* the main sampling loop: sum_squared and valid_samples over the readings
\* whose squared distance from effective_offset exceeds MIN_SQUARED_ADC
RECURSIVE sampleLoop(_, _, _)
sampleLoop(main, effective_offset, acc) ==
    IF main = <<>> THEN acc
    ELSE LET raw == main[1][1]
             n == main[1][2]
             centered == raw - effective_offset
             squared == centered * centered
         IN  sampleLoop(Tail(main), effective_offset,
               [ sum_squared   |-> IF squared > MIN_SQUARED_ADC
                                   THEN BigAdd(acc.sum_squared, BigMul(squared, n))
                                   ELSE acc.sum_squared,
                 valid_samples |-> IF squared > MIN_SQUARED_ADC
                                   THEN acc.valid_samples + n
                                   ELSE acc.valid_samples,
                 samples_taken |-> acc.samples_taken + n ])

\* valid_signal, from the loop's counts and the raw range of the pre-check
\* and main readings
validSignal(acc, pre, main) ==
    LET raw_max == BatchMax(main, BatchMax(pre, 0))
        raw_min == BatchMin(main, BatchMin(pre, ADC_MAX))
        peak_to_peak == raw_max - raw_min
        pct_valid == (acc.valid_samples * 100) \div acc.samples_taken
    IN  /\ acc.valid_samples >= MIN_VALID_SAMPLES
        /\ peak_to_peak >= MIN_PEAK_TO_PEAK
        /\ pct_valid >= MIN_PCT_VALID_SAMPLES

\* new_current, in units of Kc: sqrt(sum_squared / samples_taken)
newCurrent(acc) == Sqrt(BigDiv(acc.sum_squared, acc.samples_taken))

\* acceptReading with the steady-state blend in every state
acceptReadingSteadyBlend(s, acc, now) ==
    LET new_current == newCurrent(acc)
        current_ac == (s.last_current * SMOOTHING_FACTOR_PCT
                       + new_current * (100 - SMOOTHING_FACTOR_PCT)) \div 100
    IN  [s EXCEPT !.current_ac = current_ac,
                  !.in_reconnect = IF s.in_reconnect
                                   THEN ~(acc.samples_taken + 1 > RECONNECT_CYCLES)
                                   ELSE FALSE,
                  !.last_current = current_ac,
                  !.last_valid_current = new_current,
                  !.last_valid_time = now]

\* the accepted reading blended into the smoothed current; the reconnect
\* flag is cleared when ++samples_taken > 50
acceptReading(s, acc, now) ==
    LET new_current == newCurrent(acc)
        current_ac ==
            IF s.in_reconnect
            THEN (s.last_current * RECONNECT_SMOOTHING_PCT
                  + new_current * (100 - RECONNECT_SMOOTHING_PCT)) \div 100
            ELSE (s.last_current * SMOOTHING_FACTOR_PCT
                  + new_current * (100 - SMOOTHING_FACTOR_PCT)) \div 100
    IN  [s EXCEPT !.current_ac = current_ac,
                  !.in_reconnect = IF s.in_reconnect
                                   THEN ~(acc.samples_taken + 1 > RECONNECT_CYCLES)
                                   ELSE FALSE,
                  !.last_current = current_ac,
                  !.last_valid_current = new_current,
                  !.last_valid_time = now]

\* the else branch treating a cycle without a valid signal as a disconnect
zeroCurrentAndDisconnect(s) ==
    [s EXCEPT !.current_ac = 0, !.last_current = 0, !.last_valid_current = 0,
              !.ct_connected = FALSE, !.in_reconnect = FALSE]

\* the else branch: no valid signal, or the CT is disconnected
zeroCurrent(s) ==
    [s EXCEPT !.current_ac = 0, !.last_current = 0, !.last_valid_current = 0]

\* measure accepting a valid signal without looking at _ct_connected
measureIgnoringConnection(s, in, now) ==
    LET s1 == updateOffsets(s, in.off)
        acc == sampleLoop(in.main, effectiveOffset(s1),
                 [sum_squared |-> BigZero, valid_samples |-> 0, samples_taken |-> 0])
        s2 == IF validSignal(acc, in.pre, in.main)
              THEN acceptReading(s1, acc, now)
              ELSE zeroCurrent(s1)
    IN  updateEnergy(s2, now)

\* measure blending every reading of a connected CT, valid signal or not
measureWithoutValidation(s, in, now) ==
    LET s1 == updateOffsets(s, in.off)
        acc == sampleLoop(in.main, effectiveOffset(s1),
                 [sum_squared |-> BigZero, valid_samples |-> 0, samples_taken |-> 0])
        s2 == IF s1.ct_connected
              THEN acceptReading(s1, acc, now)
              ELSE zeroCurrent(s1)
    IN  updateEnergy(s2, now)

\* the cycle after the connection check: offsets, sampling, validation,
\* smoothing, energy
measure(s, in, now) ==
    LET s1 == updateOffsets(s, in.off)
        acc == sampleLoop(in.main, effectiveOffset(s1),
                 [sum_squared |-> BigZero, valid_samples |-> 0, samples_taken |-> 0])
        s2 == IF s1.ct_connected /\ validSignal(acc, in.pre, in.main)
              THEN acceptReading(s1, acc, now)
              ELSE zeroCurrent(s1)
    IN  updateEnergy(s2, now)

\* calculateCurrent with a disconnect branch that leaves _in_reconnect alone
calculateCurrentKeepsFlag(s, in, now) ==
    LET s0 == [s EXCEPT !.valid_reading_count = countValidReadings(in.pre, 0)]
        possible_disconnect == possibleDisconnect(s0, in.pre)
    IN  IF possible_disconnect /\ checkCTStateChange(s0, FALSE, now).result
        THEN [checkCTStateChange(s0, FALSE, now).s EXCEPT
                !.ct_connected = FALSE,
                !.current_ac = 0,
                !.last_current = 0,
                !.last_valid_current = 0]
        ELSE IF ~possible_disconnect /\ ~s0.ct_connected
                /\ checkCTStateChange(s0, TRUE, now).result
        THEN resetOffsetFilters(checkCTStateChange(s0, TRUE, now).s, in.rst)
        ELSE measure(s0, in, now)

\* PowerMonitor::calculateCurrent, on the readings in = [pre, off, main, rst]
calculateCurrent(s, in, now) ==
    LET s0 == [s EXCEPT !.valid_reading_count = countValidReadings(in.pre, 0)]
        possible_disconnect == possibleDisconnect(s0, in.pre)
    IN  IF possible_disconnect /\ checkCTStateChange(s0, FALSE, now).result
        THEN [checkCTStateChange(s0, FALSE, now).s EXCEPT
                !.ct_connected = FALSE,
                !.current_ac = 0,
                !.last_current = 0,
                !.last_valid_current = 0,
                !.in_reconnect = FALSE]
        ELSE IF ~possible_disconnect /\ ~s0.ct_connected
                /\ checkCTStateChange(s0, TRUE, now).result
        THEN resetOffsetFilters(checkCTStateChange(s0, TRUE, now).s, in.rst)
        ELSE measure(s0, in, now)

\* PowerMonitor::update
update(s, in, now) == calculateCurrent(sampleVoltage(s, in.volt), in, now)

\* ---------------------------------------------------------------- inputs
Flat(v, n) == << <<v, n>> >>
\* a square wave between lo and hi
Wave(lo, hi, n) == << <<lo, n \div 2>>, <<hi, n - (n \div 2)>> >>
\* n readings, the last k of them at the value bad
BadTail(v, bad, n, k) == << <<v, n - k>>, <<bad, k>> >>

\* the current channel during one update(): the pre-check, offset, main and
\* reset batches
CurrentSignal(pre, off, main, rst) ==
    [pre |-> pre, off |-> off, main |-> main, rst |-> rst]

FlatSignal(v) ==
    CurrentSignal(Flat(v, PRE_SAMPLES), Flat(v, OFFSET_SAMPLES),
                  Flat(v, SAMPLES_PER_CYCLE), Flat(v, RESET_SAMPLES))

\* no load: the bias of the CT
Idle == FlatSignal(INITIAL_OFFSET)
\* an AC load around the bias
Load ==
    CurrentSignal(Wave(1780, 1980, PRE_SAMPLES), Wave(1780, 1980, OFFSET_SAMPLES),
                  Wave(1780, 1980, SAMPLES_PER_CYCLE), Wave(1780, 1980, RESET_SAMPLES))
\* the CT unplugged: the input at the rail
Open == FlatSignal(ADC_MAX)
\* readings in the valid range, far above mid-scale
High == FlatSignal(3000)
\* the bias with readings at the rail at the end of the reset batch
Glitch ==
    CurrentSignal(Flat(INITIAL_OFFSET, PRE_SAMPLES), Flat(INITIAL_OFFSET, OFFSET_SAMPLES),
                  Flat(INITIAL_OFFSET, SAMPLES_PER_CYCLE),
                  BadTail(INITIAL_OFFSET, ADC_MAX, RESET_SAMPLES, 3))
\* the input leaving the rail: the last MIN_VALID_COUNT pre-check readings
\* are valid, the pre-check average is still far from the bias
Settling ==
    CurrentSignal(<< <<ADC_MAX, PRE_SAMPLES - MIN_VALID_COUNT>>,
                     <<MAX_VALID_ADC, MIN_VALID_COUNT>> >>,
                  Flat(MAX_VALID_ADC, OFFSET_SAMPLES),
                  Flat(MAX_VALID_ADC, SAMPLES_PER_CYCLE),
                  Flat(MAX_VALID_ADC, RESET_SAMPLES))

Signals == {Idle, Load, Open, High, Glitch, Settling}

\* the voltage channel during one update()
VoltageBatches == {Flat(2, VOLTAGE_SAMPLES), Wave(1, 2, VOLTAGE_SAMPLES)}

\* milliseconds between two update() calls
ClockSteps == {2500, 6000}

\* milliseconds between construction and begin()
StartDelays == {100}

\* ---------------------------------------------------------------- Button
\* Both millis() calls of one Button::update() return the same value.
DEBOUNCE_DELAY == 50
LONG_PRESS_TIME == 1000
LOW == FALSE
HIGH == TRUE

\* Button::Button
Button_Construct ==
    [ lastState         |-> LOW,
      currentState      |-> LOW,
      wasPressed        |-> FALSE,
      wasReleased       |-> FALSE,
      lastDebounceTime  |-> 0,
      pressStartTime    |-> 0,
      longPressDetected |-> FALSE ]

\* the long press detection at the end of Button::update
Button_detectLongPress(b, currentTime) ==
    IF b.currentState = HIGH /\ ~b.longPressDetected
       /\ (currentTime - b.pressStartTime) > LONG_PRESS_TIME
    THEN [b EXCEPT !.longPressDetected = TRUE]
    ELSE b

\* Button::update taking every reading that differs from the debounced state
Button_updateNoDebounce(b, reading, currentTime) ==
    LET b1 == [b EXCEPT !.wasPressed = FALSE,
                        !.wasReleased = FALSE,
                        !.lastDebounceTime =
                            IF reading # b.lastState THEN currentTime ELSE @]
        changed == reading # b1.currentState
        b2 == IF ~changed THEN b1
              ELSE IF reading = HIGH
              THEN [b1 EXCEPT !.currentState = reading,
                              !.pressStartTime = currentTime,
                              !.wasPressed = TRUE,
                              !.longPressDetected = FALSE]
              ELSE [b1 EXCEPT !.currentState = reading,
                              !.wasReleased = TRUE]
    IN  [result |-> changed,
         b |-> [Button_detectLongPress(b2, currentTime) EXCEPT !.lastState = reading]]

\* Button::update on the raw reading: the returned flag and the object
Button_update(b, reading, currentTime) ==
    LET b1 == [b EXCEPT !.wasPressed = FALSE,
                        !.wasReleased = FALSE,
                        !.lastDebounceTime =
                            IF reading # b.lastState THEN currentTime ELSE @]
        changed == /\ (currentTime - b1.lastDebounceTime) > DEBOUNCE_DELAY
                   /\ reading # b1.currentState
        b2 == IF ~changed THEN b1
              ELSE IF reading = HIGH
              THEN [b1 EXCEPT !.currentState = reading,
                              !.pressStartTime = currentTime,
                              !.wasPressed = TRUE,
                              !.longPressDetected = FALSE]
              ELSE [b1 EXCEPT !.currentState = reading,
                              !.wasReleased = TRUE]
    IN  [result |-> changed,
         b |-> [Button_detectLongPress(b2, currentTime) EXCEPT !.lastState = reading]]

\* Button::isPressed
Button_isPressed(b) == b.currentState = HIGH

\* Button::wasPressed: the returned flag and the object
Button_wasPressed(b) ==
    [result |-> b.wasPressed, b |-> [b EXCEPT !.wasPressed = FALSE]]

\* Button::wasReleased: the returned flag and the object
Button_wasReleased(b) ==
    [result |-> b.wasReleased, b |-> [b EXCEPT !.wasReleased = FALSE]]

\* Button::isLongPress
Button_isLongPress(b) == b.longPressDetected

\* Button::getPressTime at millis() = now
Button_getPressTime(b, now) ==
    IF b.currentState = HIGH THEN now - b.pressStartTime ELSE 0

\* milliseconds between two Button::update() calls
ButtonSteps == {25, 50, 500}

\* ---------------------------------------------------------------- state
VARIABLES
    mon,        \* the two PowerMonitor objects, by phase count
    clock,      \* millis()
    started,    \* begin() was called
    cycles,     \* number of update() calls so far
    hist,       \* history: the last update() and what led to it
    button      \* the Button object and the history of its last update()

vars == <<mon, clock, started, cycles, hist, button>>

\* the branch calculateCurrent takes
Path(s, in, now) ==
    IF possibleDisconnect(s, in.pre) /\ checkCTStateChange(s, FALSE, now).result
    THEN "disconnect"
    ELSE IF ~possibleDisconnect(s, in.pre) /\ ~s.ct_connected
            /\ checkCTStateChange(s, TRUE, now).result
    THEN "reset"
    ELSE "measure"

\* the cycle accepted a validated reading
Accepted(s, in, now) ==
    /\ Path(s, in, now) = "measure"
    /\ s.ct_connected
    /\ validSignal(sampleLoop(in.main, effectiveOffset(updateOffsets(s, in.off)),
                     [sum_squared |-> BigZero, valid_samples |-> 0, samples_taken |-> 0]),
                   in.pre, in.main)

\* history of one object: h before update(s, in, now), t the object after it
\*   possible   the pre-check of the last cycle reported a possible disconnect
\*   run_first  millis() of the first cycle of the current run of consecutive
\*              cycles with a possible disconnect
\*   run_before the connection state before that run
\*   validated  accepted valid cycles since the last successful offset reset,
\*              -1 when there was none since the last disconnect
\*   awaiting   the object was Disconnected and no reading was accepted since
\*   changed_at     millis() of the last cycle that changed _ct_connected,
\*                  -1 when there was none
\*   changed_before changed_at as it was before the last cycle
History(h, s, t, in, now) ==
    LET possible == possibleDisconnect(s, in.pre)
        path == Path(s, in, now)
        accepted == Accepted(s, in, now)
    IN  [ possible   |-> possible,
          run_first  |-> IF possible /\ h.possible THEN h.run_first ELSE now,
          run_before |-> IF possible /\ h.possible THEN h.run_before
                                                   ELSE s.ct_connected,
          validated  |-> IF path = "reset" /\ t.ct_connected THEN 0
                         ELSE IF ~t.ct_connected THEN -1
                         ELSE IF accepted /\ h.validated >= 0 THEN h.validated + 1
                         ELSE h.validated,
          awaiting   |-> IF ~t.ct_connected THEN TRUE
                         ELSE IF accepted THEN FALSE
                         ELSE h.awaiting,
          changed_at     |-> IF t.ct_connected # s.ct_connected THEN now
                                                                ELSE h.changed_at,
          changed_before |-> h.changed_at ]

NoHistory ==
    [possible |-> FALSE, run_first |-> 0, run_before |-> TRUE,
     validated |-> -1, awaiting |-> FALSE,
     changed_at |-> -1, changed_before |-> -1]

\* the Button object with the history of its last update() call
\*   b              the object
\*   before         the object before the call
\*   reading        the raw reading of the call
\*   result         what the call returned
\*   raw_changed_at millis() of the last call whose raw reading differed from
\*                  the raw reading of the call before it, 0 when none did
\*   calls          update() was called
NoButtonHistory ==
    [b |-> Button_Construct, before |-> Button_Construct, reading |-> LOW,
     result |-> FALSE, raw_changed_at |-> 0, calls |-> FALSE]

Init ==
    /\ mon = [p \in Phases |-> Construct(p)]
    /\ clock = 0
    /\ started = FALSE
    /\ cycles = 0
    /\ hist = [path |-> "none", in |-> Idle, volt |-> <<>>, prev |-> mon,
               prev_clock |-> 0, rejected_seen |-> FALSE,
               of |-> [p \in Phases |-> NoHistory]]
    /\ button = NoButtonHistory

Begin ==
    /\ ~started
    /\ \E d \in StartDelays :
         /\ clock' = clock + d
         /\ mon' = [p \in Phases |-> begin(mon[p], clock + d)]
    /\ started' = TRUE
    /\ UNCHANGED <<cycles, hist, button>>

\* one update() of both objects, d ms after the previous call, on the
\* current-channel readings sig and the voltage-channel readings volt
Cycle(sig, volt, d) ==
    LET now == clock + d
        in == [pre |-> sig.pre, off |-> sig.off, main |-> sig.main,
               rst |-> sig.rst, volt |-> volt]
        path == Path(mon[SINGLE_PHASE], in, now)
    IN  /\ clock' = now
        /\ mon' = [p \in Phases |-> update(mon[p], in, now)]
        /\ hist' = [path |-> path, in |-> sig, volt |-> volt, prev |-> mon,
                    prev_clock |-> clock,
                    rejected_seen |-> \/ hist.rejected_seen
                                      \/ /\ path = "reset"
                                         /\ ~mon'[SINGLE_PHASE].ct_connected,
                    of |-> [p \in Phases |->
                              History(hist.of[p], mon[p], mon'[p], in, now)]]
        /\ cycles' = cycles + 1
        /\ UNCHANGED <<started, button>>

Update ==
    /\ started
    /\ cycles < MaxCycles
    /\ \E sig \in Signals, volt \in VoltageBatches, d \in ClockSteps :
         Cycle(sig, volt, d)

Next == Begin \/ Update

Spec == Init /\ [][Next]_vars

\* ------------------------------------------------ reconnecting, with fairness
\* The loop of the sketch calls update() over and over: the cycle is weakly
\* fair.  The objects start Disconnected and the current channel carries
\* readings inside RESET_OFFSET_MIN..RESET_OFFSET_MAX only.
InBandSignals == {FlatSignal(RESET_OFFSET_MIN), FlatSignal(RESET_OFFSET_MAX)}

\* the voltage channel while reconnecting
InBandVoltage == {Flat(2, VOLTAGE_SAMPLES)}

\* values of the slow offset of a Disconnected object: the bias, and the two
\* rails the filter is drawn to by an open or a shorted input
DisconnectedOffsets == {0, INITIAL_OFFSET, ADC_MAX}

\* millis() of the disconnect
DisconnectTimes == {6100}

\* a Disconnected object: calculateCurrent's disconnect branch at millis() t,
\* the slow and the fast offset at offset
Disconnected(phase_count, offset, t) ==
    [Construct(phase_count) EXCEPT !.ct_connected = FALSE,
                                   !.filtered_offset = offset,
                                   !.fast_offset = offset,
                                   !.last_ct_state_change = t,
                                   !.last_energy_update = t]

InitDisconnected ==
    /\ \E offset \in DisconnectedOffsets, t \in DisconnectTimes :
         /\ mon = [p \in Phases |-> Disconnected(p, offset, t)]
         /\ clock = t
         /\ hist = [path |-> "disconnect", in |-> Open, volt |-> <<>>, prev |-> mon,
                    prev_clock |-> t, rejected_seen |-> FALSE,
                    of |-> [p \in Phases |->
                              [NoHistory EXCEPT !.possible = TRUE, !.run_first = t,
                                                !.awaiting = TRUE,
                                                !.changed_at = t]]]
    /\ started = TRUE
    /\ cycles = 0
    /\ button = NoButtonHistory

\* loop() is about to call update()
UpdateDue ==
    /\ started
    /\ cycles < MaxReconnectCycles
    /\ ~mon[SINGLE_PHASE].ct_connected

UpdateInBand ==
    /\ UpdateDue
    /\ \E sig \in InBandSignals, volt \in InBandVoltage, d \in ClockSteps :
         Cycle(sig, volt, d)

NextReconnect == UpdateInBand

\* a call of update() has returned: the steps of UpdateInBand, which is
\* enabled whenever UpdateDue holds
UpdateCalled == UpdateDue /\ cycles' = cycles + 1

SpecReconnect ==
    InitDisconnected /\ [][NextReconnect]_vars /\ WF_cycles(UpdateCalled)

\* ---------------------------------------------------------------- the button
ButtonUpdate ==
    \E reading \in {LOW, HIGH}, d \in ButtonSteps :
        /\ clock + d <= MaxButtonClock
        /\ clock' = clock + d
        /\ button' =
             [b |-> Button_update(button.b, reading, clock + d).b,
              before |-> button.b,
              reading |-> reading,
              result |-> Button_update(button.b, reading, clock + d).result,
              raw_changed_at |-> IF button.calls /\ reading # button.reading
                                 THEN clock + d
                                 ELSE button.raw_changed_at,
              calls |-> TRUE]
        /\ UNCHANGED <<mon, started, cycles, hist>>

ButtonWasPressed ==
    /\ button' = [button EXCEPT !.b = Button_wasPressed(button.b).b]
    /\ UNCHANGED <<mon, clock, started, cycles, hist>>

ButtonWasReleased ==
    /\ button' = [button EXCEPT !.b = Button_wasReleased(button.b).b]
    /\ UNCHANGED <<mon, clock, started, cycles, hist>>

NextButton == ButtonUpdate \/ ButtonWasPressed \/ ButtonWasReleased

SpecButton == Init /\ [][NextButton]_vars

\* both objects take the same branch: the connection state machine does not
\* read the phase count
SameConnection ==
    /\ mon[SINGLE_PHASE].ct_connected = mon[THREE_PHASE].ct_connected
    /\ mon[SINGLE_PHASE].in_reconnect = mon[THREE_PHASE].in_reconnect
    /\ mon[SINGLE_PHASE].current_ac = mon[THREE_PHASE].current_ac

\* ---------------------------------------------------------------- claims
\* the phase factor of the power equation, over FACTOR_DEN
PhaseFactor(p) == IF p = THREE_PHASE THEN FACTOR_NUM ELSE FACTOR_DEN

\* a * d, for a multi-digit natural a and 0 <= d < 2 * DigitBase
BigScale(a, d) ==
    LET t1 == a[1] * d
        t2 == a[2] * d + (t1 \div DigitBase)
        t3 == a[3] * d + (t2 \div DigitBase)
        t4 == a[4] * d + (t3 \div DigitBase)
    IN  <<t1 % DigitBase, t2 % DigitBase, t3 % DigitBase, t4>>

\* the batches calculateCurrent reads on the given branch
BatchesRead(in, path) ==
    IF path = "disconnect" THEN {in.pre}
    ELSE IF path = "reset" THEN {in.pre, in.rst}
    ELSE {in.pre, in.off, in.main}

\* every reading of the last cycle had the value c
ConstantAt(c) ==
    \A b \in BatchesRead(hist.in, hist.path) :
        \A i \in 1..Len(b) : b[i][1] = c

\* the last k readings of the batch are all in MIN_VALID_ADC..MAX_VALID_ADC
RECURSIVE LastReadingsValid(_, _)
LastReadingsValid(rst, k) ==
    IF k <= 0 \/ rst = <<>> THEN TRUE
    ELSE LET last == rst[Len(rst)]
         IN  /\ last[1] >= MIN_VALID_ADC
             /\ last[1] <= MAX_VALID_ADC
             /\ LastReadingsValid(SubSeq(rst, 1, Len(rst) - 1), k - last[2])
\* the outcome of the reset batch, from its readings: the 50-reading average
\* in band and the last MIN_VALID_COUNT readings all valid
ResetAverage(rst) == BatchSum(rst) \div RESET_SAMPLES
ResetAccepts(rst) ==
    /\ ResetAverage(rst) >= RESET_OFFSET_MIN
    /\ ResetAverage(rst) <= RESET_OFFSET_MAX
    /\ LastReadingsValid(rst, MIN_VALID_COUNT)

\* C1: a run of consecutive cycles whose pre-checks each report a possible
\* disconnect and that spans less than CT_STATE_DEBOUNCE ms from its first
\* to its last cycle leaves the connection state what it was before the run.
C1_DebounceStability ==
    \A p \in Phases :
        (hist.of[p].possible /\ clock - hist.of[p].run_first < CT_STATE_DEBOUNCE)
            => mon[p].ct_connected = hist.of[p].run_before

\* C2: whenever the object is Disconnected at the end of update(), and from
\* then on until a cycle accepts a validated reading (which needs a
\* successful offset reset first), _current_ac and _last_current are 0.
C2_DisconnectForcesZero ==
    \A p \in Phases :
        (~mon[p].ct_connected \/ hist.of[p].awaiting)
            => mon[p].current_ac = 0 /\ mon[p].last_current = 0

\* C2 witness: a Disconnected object has just run a full cycle on an AC load
\* signal, after having carried a non-zero current earlier.
C2_Witness ==
    \E p \in Phases :
        /\ ~mon[p].ct_connected
        /\ ~hist.prev[p].ct_connected
        /\ hist.path = "measure"
        /\ hist.in = Load
        /\ BigLeq(mon[p].energy_kwh, BigZero) = FALSE

\* C3: after a successful offset reset the reconnect flag stays set until
\* RECONNECT_CYCLES cycles with accepted readings have completed, unless a
\* disconnect intervenes.
C3_ReconnectTransientLength ==
    \A p \in Phases :
        (mon[p].ct_connected /\ hist.of[p].validated >= 0
           /\ hist.of[p].validated < RECONNECT_CYCLES)
            => mon[p].in_reconnect

\* C4: at the end of every update(), _power_w = phaseFactor * _voltage_ac *
\* _current_ac for the values the getters expose.
C4_PowerConsistency ==
    cycles > 0 =>
        \A p \in Phases :
            mon[p].power_w = PhaseFactor(p) * mon[p].voltage_ac * mon[p].current_ac

\* C5: over every update(), _energy_kwh does not decrease, and when _power_w
\* is the same P before and after the cycle, _energy_kwh grows by P times the
\* milliseconds between the two calls.
C5_EnergyMonotonicity ==
    cycles > 0 =>
        \A p \in Phases :
            /\ BigLeq(hist.prev[p].energy_kwh, mon[p].energy_kwh)
            /\ mon[p].power_w = hist.prev[p].power_w
                 => mon[p].energy_kwh =
                      BigAdd(hist.prev[p].energy_kwh,
                             BigMul(mon[p].power_w, clock - hist.prev_clock))

\* C6 as claimed: after every update(), _power_w of the three-phase object
\* is THREE_PHASE_FACTOR times _power_w of the single-phase object.
C6_ThreePhaseScalingOriginal ==
    cycles > 0 =>
        BigMul(mon[THREE_PHASE].power_w, FACTOR_DEN)
            = BigMul(mon[SINGLE_PHASE].power_w, FACTOR_NUM)

\* C6 as amended: after every update(), _power_w of the three-phase object
\* is THREE_PHASE_FACTOR squared times _power_w of the single-phase object:
\* its _voltage_ac is THREE_PHASE_FACTOR times the single-phase one, and
\* updateEnergy multiplies by THREE_PHASE_FACTOR once more.
C6_ThreePhaseScaling ==
    cycles > 0 =>
        /\ mon[THREE_PHASE].voltage_ac * FACTOR_DEN
             = mon[SINGLE_PHASE].voltage_ac * FACTOR_NUM
        /\ mon[THREE_PHASE].current_ac = mon[SINGLE_PHASE].current_ac
        /\ BigScale(BigMul(mon[THREE_PHASE].power_w, FACTOR_DEN), FACTOR_DEN)
             = BigScale(BigMul(mon[SINGLE_PHASE].power_w, FACTOR_NUM), FACTOR_NUM)

\* C6 witness: both objects report a non-zero power after an update().
C6_Witness ==
    /\ cycles > 0
    /\ mon[SINGLE_PHASE].power_w > 0
    /\ mon[THREE_PHASE].power_w > 0
    /\ hist.path = "measure"

\* C7: when every current-channel reading of a cycle has one value, equal to
\* the effective offset of that cycle, _current_ac is 0 after update().
C7_FlatSignalZero ==
    \A p \in Phases :
        (cycles > 0 /\ ConstantAt(effectiveOffset(mon[p])))
            => mon[p].current_ac = 0

\* C7 witness: a Connected object that carried a current has run a full
\* cycle on readings constant at its effective offset.
C7_Witness ==
    \E p \in Phases :
        /\ cycles > 0
        /\ hist.path = "measure"
        /\ ConstantAt(effectiveOffset(mon[p]))
        /\ mon[p].ct_connected
        /\ hist.prev[p].ct_connected
        /\ hist.prev[p].current_ac > 0

\* C8 as claimed: the disconnect threshold is smaller when Connected and
\* larger by CT_HYSTERESIS when Disconnected.
C8_HysteresisDirectionOriginal ==
    \A p \in Phases :
        disconnectThreshold([mon[p] EXCEPT !.ct_connected = FALSE])
            = disconnectThreshold([mon[p] EXCEPT !.ct_connected = TRUE]) + CT_HYSTERESIS

\* C8 as amended: the disconnect threshold is CT_DISCONNECT_THRESHOLD when
\* Connected and smaller by CT_HYSTERESIS when Disconnected; each cycle
\* reports a possible disconnect exactly when |quickCheck - slowOffset|
\* exceeds the threshold of the state it started in, or the trailing count
\* of valid readings is below MIN_VALID_COUNT.
C8_HysteresisDirection ==
    \A p \in Phases :
        /\ disconnectThreshold([mon[p] EXCEPT !.ct_connected = FALSE])
             = disconnectThreshold([mon[p] EXCEPT !.ct_connected = TRUE]) - CT_HYSTERESIS
        /\ disconnectThreshold([mon[p] EXCEPT !.ct_connected = TRUE])
             = CT_DISCONNECT_THRESHOLD
        /\ cycles > 0 =>
             (hist.of[p].possible <=>
                \/ Abs(quickCheck(hist.in.pre) - hist.prev[p].filtered_offset)
                     > (IF hist.prev[p].ct_connected
                        THEN CT_DISCONNECT_THRESHOLD
                        ELSE CT_DISCONNECT_THRESHOLD - CT_HYSTERESIS)
                \/ ~LastReadingsValid(hist.in.pre, MIN_VALID_COUNT))

\* C8 witness: a cycle started Disconnected with valid readings whose
\* distance from the slow offset lies between the two thresholds, and
\* reported a possible disconnect.
C8_Witness ==
    \E p \in Phases :
        /\ cycles > 0
        /\ ~hist.prev[p].ct_connected
        /\ hist.path = "measure"
        /\ LastReadingsValid(hist.in.pre, MIN_VALID_COUNT)
        /\ clock - hist.prev[p].last_ct_state_change > CT_STATE_DEBOUNCE
        /\ Abs(quickCheck(hist.in.pre) - hist.prev[p].filtered_offset)
             > CT_DISCONNECT_THRESHOLD - CT_HYSTERESIS
        /\ Abs(quickCheck(hist.in.pre) - hist.prev[p].filtered_offset)
             <= CT_DISCONNECT_THRESHOLD
        /\ hist.of[p].possible

\* C9: after every update() the slow and the fast offset lie inside
\* RESET_OFFSET_MIN..RESET_OFFSET_MAX.
C9_OffsetPlausible ==
    \A p \in Phases :
        /\ mon[p].filtered_offset >= RESET_OFFSET_MIN
        /\ mon[p].filtered_offset <= RESET_OFFSET_MAX
        /\ mon[p].fast_offset >= RESET_OFFSET_MIN
        /\ mon[p].fast_offset <= RESET_OFFSET_MAX

\* C10: a rejected offset reset leaves both offsets as they were, the
\* reconnect flag cleared and the state Disconnected; an accepted one sets
\* both offsets to the batch average, and the state to Connected with the
\* reconnect flag set.
C10_ResetOutcome ==
    \A p \in Phases :
        hist.path = "reset" =>
            IF ResetAccepts(hist.in.rst)
            THEN /\ mon[p].filtered_offset = ResetAverage(hist.in.rst)
                 /\ mon[p].fast_offset = ResetAverage(hist.in.rst)
                 /\ mon[p].ct_connected
                 /\ mon[p].in_reconnect
            ELSE /\ mon[p].filtered_offset = hist.prev[p].filtered_offset
                 /\ mon[p].fast_offset = hist.prev[p].fast_offset
                 /\ ~mon[p].ct_connected
                 /\ ~mon[p].in_reconnect

\* C10 witness: after an earlier rejected reset had left the object
\* Disconnected, a reset is accepted and the object is Reconnecting.
C10_Witness ==
    \E p \in Phases :
        /\ hist.path = "reset"
        /\ hist.rejected_seen
        /\ ResetAccepts(hist.in.rst)
        /\ ~hist.prev[p].ct_connected
        /\ mon[p].ct_connected
        /\ mon[p].in_reconnect

\* the last cycle reached the signal validation and the validation passed
\* for the object that was s before the cycle
ValidatedLast(s) ==
    validSignal(sampleLoop(hist.in.main,
                           effectiveOffset(updateOffsets(s, hist.in.off)),
                           [sum_squared |-> BigZero, valid_samples |-> 0,
                            samples_taken |-> 0]),
                hist.in.pre, hist.in.main)

\* C11: while Connected or Reconnecting, a cycle that fails the signal
\* validation sets _current_ac and _last_current to 0 and leaves the
\* connection state, the reconnect flag and the state-change timestamp
\* unchanged.
C11_InvalidCycleNotDisconnect ==
    \A p \in Phases :
        (hist.path = "measure" /\ hist.prev[p].ct_connected
           /\ ~ValidatedLast(hist.prev[p]))
            => /\ mon[p].current_ac = 0
               /\ mon[p].last_current = 0
               /\ mon[p].ct_connected = hist.prev[p].ct_connected
               /\ mon[p].in_reconnect = hist.prev[p].in_reconnect
               /\ mon[p].last_ct_state_change = hist.prev[p].last_ct_state_change

\* C11 witness: a Connected object that carried a current has run a cycle
\* on a signal that failed the validation.
C11_Witness ==
    \E p \in Phases :
        /\ hist.path = "measure"
        /\ hist.prev[p].ct_connected
        /\ hist.prev[p].current_ac > 0
        /\ ~ValidatedLast(hist.prev[p])
        /\ mon[p].ct_connected

\* the last cycle accepted a validated reading for the object that was s
AcceptedLast(s) ==
    hist.path = "measure" /\ s.ct_connected /\ ValidatedLast(s)

\* the smoothed current with the weight of the steady Connected state,
\* 1 - SMOOTHING_FACTOR, given to the new reading
SteadyBlend(last, new) ==
    (last * SMOOTHING_FACTOR_PCT + new * (100 - SMOOTHING_FACTOR_PCT)) \div 100

\* C12 as claimed: a reading accepted in the Reconnecting state gets a larger
\* weight than in the steady state: the smoothed current moves at least as
\* far towards the new reading as the steady blend would move it.
C12_FasterBlendOriginal ==
    \A p \in Phases :
        (AcceptedLast(hist.prev[p]) /\ hist.prev[p].in_reconnect
           /\ mon[p].last_valid_current >= hist.prev[p].last_current)
            => mon[p].current_ac
                 >= SteadyBlend(hist.prev[p].last_current, mon[p].last_valid_current)

\* C12 as amended: a reading accepted in the Reconnecting state gets the
\* weight 0.02, smaller than the weight 1 - SMOOTHING_FACTOR = 0.05 of the
\* steady state: the smoothed current is 0.98 * last + 0.02 * new and moves
\* no further towards the new reading than the steady blend; a reading
\* accepted in the steady state is blended with 1 - SMOOTHING_FACTOR.
C12_ReconnectBlend ==
    \A p \in Phases :
        AcceptedLast(hist.prev[p]) =>
            LET last == hist.prev[p].last_current
                new == mon[p].last_valid_current
            IN  IF hist.prev[p].in_reconnect
                THEN /\ mon[p].current_ac = (last * 98 + new * 2) \div 100
                     /\ new >= last => mon[p].current_ac <= SteadyBlend(last, new)
                ELSE mon[p].current_ac = SteadyBlend(last, new)

\* C12 witness: a reading accepted in the Reconnecting state moved the
\* smoothed current less than the steady blend would have.
C12_Witness ==
    \E p \in Phases :
        /\ AcceptedLast(hist.prev[p])
        /\ hist.prev[p].in_reconnect
        /\ mon[p].last_valid_current > hist.prev[p].last_current
        /\ mon[p].current_ac
             < SteadyBlend(hist.prev[p].last_current, mon[p].last_valid_current)

\* C13: any two changes of the connection state are separated by more than
\* CT_STATE_DEBOUNCE ms: a cycle that starts CT_STATE_DEBOUNCE ms or less
\* after the last change leaves the connection state as it was.
C13_MinimumDwell ==
    \A p \in Phases :
        (cycles > 0 /\ hist.of[p].changed_before >= 0
           /\ clock - hist.of[p].changed_before <= CT_STATE_DEBOUNCE)
            => mon[p].ct_connected = hist.prev[p].ct_connected

\* C13 witness: the connection state changes for the second time, after a
\* cycle in between that started within the dwell time and changed nothing.
C13_Witness ==
    \E p \in Phases :
        /\ cycles > 0
        /\ hist.of[p].changed_before >= 0
        /\ mon[p].ct_connected # hist.prev[p].ct_connected
        /\ hist.prev_clock - hist.of[p].changed_before <= CT_STATE_DEBOUNCE
        /\ hist.prev_clock > hist.of[p].changed_before

\* C14: in the Disconnected state, every cycle whose pre-check reports no
\* possible disconnect and that starts more than CT_STATE_DEBOUNCE ms after
\* the last change of the connection state invokes the offset reset.
C14_ReconnectAttemptTiming ==
    \A p \in Phases :
        (cycles > 0 /\ ~hist.prev[p].ct_connected /\ ~hist.of[p].possible
           /\ hist.of[p].changed_before >= 0
           /\ clock - hist.of[p].changed_before > CT_STATE_DEBOUNCE)
            => hist.path = "reset"

\* every reading of the batch is outside MIN_VALID_ADC..MAX_VALID_ADC
AllInvalid(b) ==
    \A i \in 1..Len(b) : b[i][1] < MIN_VALID_ADC \/ b[i][1] > MAX_VALID_ADC

\* every current-channel reading offered to the last cycle was invalid
AllInvalidLast ==
    /\ AllInvalid(hist.in.pre)
    /\ AllInvalid(hist.in.off)
    /\ AllInvalid(hist.in.main)
    /\ AllInvalid(hist.in.rst)

\* millis() of the last change of the connection state before the last
\* cycle; the construction, at 0, when the state never changed
LastChangeBefore(p) ==
    IF hist.of[p].changed_before >= 0 THEN hist.of[p].changed_before ELSE 0

\* C15: a cycle of invalid readings only turns a Connected object
\* Disconnected exactly when it starts more than CT_STATE_DEBOUNCE ms after
\* the last state change, and leaves a Disconnected object Disconnected.
C15_DisconnectDetected ==
    \A p \in Phases :
        (cycles > 0 /\ AllInvalidLast) =>
            IF hist.prev[p].ct_connected
            THEN mon[p].ct_connected
                   = ~(clock - LastChangeBefore(p) > CT_STATE_DEBOUNCE)
            ELSE ~mon[p].ct_connected

\* C15 witness: an object that is Connected again after a reconnect reads
\* invalid readings only, the dwell time over, and is Disconnected.
C15_Witness ==
    \E p \in Phases :
        /\ cycles > 0
        /\ AllInvalidLast
        /\ hist.prev[p].ct_connected
        /\ hist.of[p].changed_before > 0
        /\ clock - hist.of[p].changed_before > CT_STATE_DEBOUNCE
        /\ ~mon[p].ct_connected

\* C16: from a Disconnected object, whatever its slow offset, with every
\* current-channel reading inside RESET_OFFSET_MIN..RESET_OFFSET_MAX and
\* update() called again and again, the offset reset is eventually invoked
\* and accepted and the objects are Connected.
C16_ReconnectReached ==
    <>(hist.path = "reset" /\ \A p \in Phases : mon[p].ct_connected)

\* C16 witness: the reset is accepted only after ten cycles, which the slow
\* offset needed to come within the threshold of the readings.
C16_Witness ==
    /\ hist.path = "reset"
    /\ cycles >= 10
    /\ \A p \in Phases : mon[p].ct_connected
    /\ hist.in \in InBandSignals

\* C17: the reconnect flag is set only while the object is connected, and
\* before the first update() the object is Connected with the flag cleared.
C17_ReconnectingIsConnected ==
    \A p \in Phases :
        /\ mon[p].in_reconnect => mon[p].ct_connected
        /\ cycles = 0 => (mon[p].ct_connected /\ ~mon[p].in_reconnect)

\* C17 witness: an object in the Reconnecting state has been disconnected.
C17_Witness ==
    \E p \in Phases :
        /\ hist.path = "disconnect"
        /\ hist.prev[p].in_reconnect
        /\ hist.prev[p].ct_connected
        /\ ~mon[p].ct_connected

\* C18: Button::update() changes the debounced state only in a call whose
\* raw reading differs from the debounced state and that comes more than
\* DEBOUNCE_DELAY ms after the raw reading last changed between two calls;
\* it returns true exactly when the debounced state changed; wasPressed is
\* set only by a change to HIGH, wasReleased only by a change to LOW, never
\* both.
C18_ButtonDebounce ==
    /\ button.b.currentState # button.before.currentState
         => /\ button.reading # button.before.currentState
            /\ clock - button.raw_changed_at > DEBOUNCE_DELAY
    /\ button.result = (button.b.currentState # button.before.currentState)
    /\ button.b.wasPressed => (button.result /\ button.b.currentState = HIGH)
    /\ button.b.wasReleased => (button.result /\ button.b.currentState = LOW)
    /\ ~(button.b.wasPressed /\ button.b.wasReleased)

\* C18 witness: after a debounced press, the last call has changed the
\* debounced state to LOW, more than DEBOUNCE_DELAY ms after the raw reading
\* went LOW.
C18_Witness ==
    /\ button.result
    /\ button.b.wasReleased
    /\ button.b.currentState = LOW
    /\ button.before.currentState = HIGH
    /\ button.reading = LOW
    /\ button.raw_changed_at > button.b.pressStartTime
    /\ clock - button.raw_changed_at > DEBOUNCE_DELAY

\* C19: isLongPress() is true only while the debounced state is HIGH and
\* has been HIGH for more than LONG_PRESS_TIME ms, and getPressTime() is 0
\* whenever the debounced state is not HIGH.
C19_LongPress ==
    /\ Button_isLongPress(button.b)
         => /\ Button_isPressed(button.b)
            /\ clock - button.b.pressStartTime > LONG_PRESS_TIME
    /\ ~Button_isPressed(button.b) => Button_getPressTime(button.b, clock) = 0

====
